---- MODULE Spec2Model ----
(***************************************************************************)
(* Model of qr_console (src/qr_console/qr_console.py): the QRCommand       *)
(* builder, the QRConsole registry, the line tokenizer extract_args and    *)
(* the read/dispatch loop run/__read_line.                                 *)
(*                                                                         *)
(* Text is modelled as sequences of one-character strings, so that the     *)
(* tokenizer, the dash handling of add_argument and the option matching of *)
(* the argument parser are computed character by character.                *)
(***************************************************************************)
EXTENDS Integers, Sequences, FiniteSets, TLC

VARIABLES
    tokLine,      \* the argument s of a stand-alone extract_args call
    tokOut,       \* what that call produced ("pending" before the call)
    cmds,         \* the QRCommand objects created so far, by identity
    commands,     \* QRConsole.commands: identities of the added commands
    subparsers,   \* QRConsole.subparsers: command name -> its parser
    throw_errors, \* QRConsole.throw_errors
    pyDupCheck,   \* does the interpreter's add_parser reject a known name:
                  \* "unknown" until a call depends on it, then "yes" or "no"
    pc,           \* where the host program is: setup, prompt, returned, exited
    lastAdd,      \* how the last add_command call ended
    line,         \* what input() returned in the current __read_line call
    tokens,       \* s of the current __read_line call
    is_help,      \* is_help of the current __read_line call
    printed,      \* what the current __read_line call printed, in order
    called,       \* the handler invocations of the current __read_line call
    caught,       \* e of the except branch, NoErr while it was not entered
    exitStatus    \* status the process ended with (NoStatus while it runs)

tokVars == <<tokLine, tokOut>>

regVars == <<cmds, commands, subparsers, throw_errors, pyDupCheck, lastAdd>>

cycleVars == <<line, tokens, is_help, printed, called, caught>>

vars == <<tokLine, tokOut, cmds, commands, subparsers, throw_errors,
          pyDupCheck, pc, lastAdd, line, tokens, is_help, printed, called,
          caught, exitStatus>>

----------------------------------------------------------------------------
(* Bounds                                                                  *)

\* longest line, counted in pieces of TokPieces, given to extract_args alone
MaxPieces == 5

----------------------------------------------------------------------------
(* Characters                                                              *)

Quote == "\""

Letters ==
    {"a","b","c","d","e","f","g","h","i","j","k","l","m",
     "n","o","p","q","r","s","t","u","v","w","x","y","z",
     "A","B","C","D","E","F","G","H","I","J","K","L","M",
     "N","O","P","Q","R","S","T","U","V","W","X","Y","Z"}

Digits == {"0","1","2","3","4","5","6","7","8","9"}

\* the character class [A-Za-z0-9_ -] of the pattern p (the Cyrillic ranges
\* of the class are not part of any modelled input)
AllowedChars == Letters \cup Digits \cup {"_", " ", "-"}

\* the characters str.split() separates on
Whitespace == {" ", "\t"}

\* the sentinel text fill = '$^$$^$'
fill == <<"$", "^", "$", "$", "^", "$">>

----------------------------------------------------------------------------
(* QRConsole.extract_args                                                  *)

\* length of the longest run of class characters of s that starts at i
RECURSIVE AllowedRun(_, _)
AllowedRun(s, i) ==
    IF i <= Len(s) /\ s[i] \in AllowedChars
    THEN 1 + AllowedRun(s, i + 1)
    ELSE 0

\* re.findall(p, s): the group of every leftmost non-overlapping match of
\* a quote, one or more class characters, a quote; scanning resumes after
\* a match and one character further after a failure
RECURSIVE findall(_, _)
findall(s, i) ==
    IF i > Len(s) THEN <<>>
    ELSE IF s[i] = Quote
         THEN LET n == AllowedRun(s, i + 1) IN
              IF n >= 1 /\ i + n + 1 <= Len(s) /\ s[i + n + 1] = Quote
              THEN <<SubSeq(s, i + 1, i + n)>> \o findall(s, i + n + 2)
              ELSE findall(s, i + 1)
         ELSE findall(s, i + 1)

\* b_args = ['"' + x + '"' for x in re.findall(p, s)]
MakeBArgs(s) ==
    LET found == findall(s, 1) IN
    [k \in 1..Len(found) |-> <<Quote>> \o found[k] \o <<Quote>>]

OccursAt(s, i, old) ==
    /\ i + Len(old) - 1 <= Len(s)
    /\ SubSeq(s, i, i + Len(old) - 1) = old

\* str.replace(old, new): every non-overlapping occurrence, left to right
RECURSIVE replace(_, _, _, _)
replace(s, old, new, i) ==
    IF i > Len(s) THEN <<>>
    ELSE IF OccursAt(s, i, old)
         THEN new \o replace(s, old, new, i + Len(old))
         ELSE <<s[i]>> \o replace(s, old, new, i + 1)

\* for i in range(len(b_args)): s = s.replace(b_args[i], fill)
RECURSIVE ReplaceAll(_, _, _)
ReplaceAll(s, b_args, i) ==
    IF i > Len(b_args) THEN s
    ELSE ReplaceAll(replace(s, b_args[i], fill, 1), b_args, i + 1)

\* str.split(): the maximal runs of non-whitespace characters
RECURSIVE split(_, _, _)
split(s, i, cur) ==
    IF i > Len(s)
    THEN IF cur = <<>> THEN <<>> ELSE <<cur>>
    ELSE IF s[i] \in Whitespace
         THEN (IF cur = <<>> THEN <<>> ELSE <<cur>>) \o split(s, i + 1, <<>>)
         ELSE split(s, i + 1, Append(cur, s[i]))

NoExc == "none"

\* no call of extract_args has returned yet
Pending == [exc |-> "pending", args |-> <<>>]

\* the loop over args: the j-th word equal to fill takes b_args[i] without
\* its quotes; b_args[i] past the end of the list raises IndexError
RECURSIVE Resubstitute(_, _, _, _)
Resubstitute(args, b_args, j, i) ==
    IF j > Len(args) THEN [exc |-> NoExc, args |-> args]
    ELSE IF args[j] = fill
         THEN IF i > Len(b_args)
              THEN [exc |-> "IndexError", args |-> <<>>]
              ELSE Resubstitute(
                       [args EXCEPT ![j] = SubSeq(b_args[i], 2, Len(b_args[i]) - 1)],
                       b_args, j + 1, i + 1)
         ELSE Resubstitute(args, b_args, j + 1, i)

\* extract_args(s): the tokens, or the exception the call ends with
extract_args(s) ==
    LET b_args == MakeBArgs(s)
        s2     == ReplaceAll(s, b_args, 1)
    IN  Resubstitute(split(s2, 1, <<>>), b_args, 1, 1)

----------------------------------------------------------------------------
(* Text helpers                                                            *)

Range(f) == {f[k] : k \in DOMAIN f}

StartsWith(s, pre) == Len(pre) <= Len(s) /\ SubSeq(s, 1, Len(pre)) = pre

DropFirst(s, n) == SubSeq(s, n + 1, Len(s))

\* position of the first occurrence of character c in s, 0 when absent
FirstIndex(s, c) ==
    IF \E k \in 1..Len(s) : s[k] = c
    THEN CHOOSE k \in 1..Len(s) : s[k] = c /\ \A j \in 1..(k - 1) : s[j] # c
    ELSE 0

\* str.replace of one character by another
ReplaceChar(s, c, d) == [k \in 1..Len(s) |-> IF s[k] = c THEN d ELSE s[k]]

\* str.lstrip('-')
RECURSIVE LStripDash(_)
LStripDash(s) == IF s # <<>> /\ Head(s) = "-" THEN LStripDash(Tail(s)) ELSE s

\* ' '.join(words)
RECURSIVE JoinSpace(_)
JoinSpace(ws) ==
    IF ws = <<>> THEN <<>>
    ELSE IF Len(ws) = 1 THEN ws[1]
    ELSE ws[1] \o <<" ">> \o JoinSpace(Tail(ws))

----------------------------------------------------------------------------
(* Values handed to handlers                                               *)

NoneVal    == [t |-> "None", n |-> 0, s |-> <<>>]
IntVal(n)  == [t |-> "int",  n |-> n, s |-> <<>>]
StrVal(s)  == [t |-> "str",  n |-> 0, s |-> s]
BoolVal(b) == [t |-> "bool", n |-> IF b THEN 1 ELSE 0, s |-> <<>>]

DigitValue(c) ==
    CASE c = "0" -> 0 [] c = "1" -> 1 [] c = "2" -> 2 [] c = "3" -> 3
      [] c = "4" -> 4 [] c = "5" -> 5 [] c = "6" -> 6 [] c = "7" -> 7
      [] c = "8" -> 8 [] c = "9" -> 9

AllDigits(s) == s # <<>> /\ \A k \in 1..Len(s) : s[k] \in Digits

RECURSIVE DigitsValue(_, _)
DigitsValue(s, acc) ==
    IF s = <<>> THEN acc ELSE DigitsValue(Tail(s), 10 * acc + DigitValue(Head(s)))

\* int(text) for a sign followed by decimal digits; anything else is the
\* ValueError that argparse reports as "invalid int value"
IsIntText(s) ==
    \/ AllDigits(s)
    \/ s # <<>> /\ Head(s) \in {"-", "+"} /\ AllDigits(Tail(s))

IntOf(s) ==
    IF Head(s) = "-" THEN 0 - DigitsValue(Tail(s), 0)
    ELSE IF Head(s) = "+" THEN DigitsValue(Tail(s), 0)
    ELSE DigitsValue(s, 0)

----------------------------------------------------------------------------
(* QRCommand                                                               *)

NoFunc == "None"

\* QRCommand.__init__(name, func, help)
QRCommand(name, func) ==
    [name |-> name, func |-> func, arguments |-> <<>>]

\* self.arguments[key] = value on an insertion-ordered dict: an existing key
\* keeps its place, a new key goes last
DictSet(d, key, value) ==
    IF \E k \in 1..Len(d) : d[k].key = key
    THEN [k \in 1..Len(d) |-> IF d[k].key = key THEN value ELSE d[k]]
    ELSE Append(d, value)

\* add_argument that stores the names as they were given, without the
\* derived short and long form
add_argument_GivenNamesOnly(cmd, name, args, kwargs) ==
    LET bare_name == IF name[1] # "-" THEN name
                     ELSE IF StartsWith(name, <<"-", "-">>)
                          THEN DropFirst(name, 2)
                          ELSE DropFirst(name, 1)
    IN  [cmd EXCEPT !.arguments =
            DictSet(@, bare_name,
                    [key |-> bare_name, names |-> <<name>> \o args, kwargs |-> kwargs])]

\* QRCommand.add_argument(name, *args, **kwargs)
add_argument(cmd, name, args, kwargs) ==
    LET dashed    == name[1] = "-"
        bare_name == IF ~dashed THEN name
                     ELSE IF StartsWith(name, <<"-", "-">>)
                          THEN DropFirst(name, 2)
                          ELSE DropFirst(name, 1)
        short_name == <<"-">> \o bare_name
        full_name  == <<"-", "-">> \o bare_name
        args2      == IF dashed THEN <<short_name, full_name>> \o args ELSE args
    IN  [cmd EXCEPT !.arguments =
            DictSet(@, bare_name,
                    [key |-> bare_name, names |-> <<name>> \o args2, kwargs |-> kwargs])]

\* QRCommand.set_func(f)
set_func(cmd, f) == [cmd EXCEPT !.func = f]

\* keyword arguments of the add_argument calls of the usage example
KwInt        == [action |-> "store", type |-> "int", default |-> NoneVal]
KwIntDefault == [action |-> "store", type |-> "int", default |-> IntVal(0)]
KwStoreTrue  == [action |-> "store_true", type |-> "None", default |-> BoolVal(FALSE)]

----------------------------------------------------------------------------
(* The parsers QRConsole builds: ThrowingArgumentParser and its subparsers *)

\* the exception ThrowingArgumentParser.error raises, by the kind of its
\* message and the texts the message quotes
NoErr == [kind |-> "none", toks |-> <<>>]
Err(kind, toks) == [kind |-> kind, toks |-> toks]

\* dest of an action that stores nothing (argparse.SUPPRESS)
Suppress == <<>>

\* the help action every parser starts with; QRHelpAction replaces
\* argparse._HelpAction, so it prints and parsing goes on
HelpAction ==
    [opts |-> << <<"-", "h">>, <<"-", "-", "h", "e", "l", "p">> >>,
     dest |-> Suppress, kind |-> "help", type |-> "None",
     default |-> NoneVal, required |-> FALSE]

\* add_subparsers(required=True): a line must name a subcommand
SubParsersAction_Required ==
    [opts |-> <<>>, dest |-> Suppress, kind |-> "parsers", type |-> "None",
     default |-> NoneVal, required |-> TRUE]

\* self.subparsers = self.parser.add_subparsers()
SubParsersAction ==
    [opts |-> <<>>, dest |-> Suppress, kind |-> "parsers", type |-> "None",
     default |-> NoneVal, required |-> FALSE]

PROG == <<"P", "R", "O", "G">>

\* self.parser = ThrowingArgumentParser(prog='PROG')
MainParser == [prog |-> PROG, actions |-> <<HelpAction, SubParsersAction>>, func |-> 0]

\* self.subparsers.add_parser(name=cmd.name, prog=cmd.name, help=cmd.help)
NewParser(name) == [prog |-> name, actions |-> <<HelpAction>>, func |-> 0]

OptStrings(P) == UNION {Range(P.actions[k].opts) : k \in 1..Len(P.actions)}

ActionOf(P, o) == CHOOSE k \in 1..Len(P.actions) : o \in Range(P.actions[k].opts)

IsLongOption(o) == Len(o) > 1 /\ o[2] = "-"

\* parser.add_argument(*names, **kwargs) in add_command: a single name
\* without a dash declares a positional; otherwise every name must be an
\* option string, none of them known to the parser yet, and dest comes from
\* the first long option string (else the first), dashes stripped and inner
\* dashes turned into underscores
ParserAddArgument(P, names, kwargs) ==
    IF Len(names) = 1 /\ names[1][1] # "-"
    THEN [exc |-> NoExc,
          parser |-> [P EXCEPT !.actions = Append(@,
                        [opts |-> <<>>, dest |-> names[1], kind |-> kwargs.action,
                         type |-> kwargs.type, default |-> kwargs.default,
                         required |-> TRUE])]]
    ELSE IF \E k \in 1..Len(names) : names[k][1] # "-"
    THEN [exc |-> "ValueError", parser |-> P]
    ELSE LET longs == SelectSeq(names, IsLongOption)
             dest_option_string == IF longs # <<>> THEN longs[1] ELSE names[1]
             dest == ReplaceChar(LStripDash(dest_option_string), "-", "_")
         IN  IF dest = <<>>
             THEN [exc |-> "ValueError", parser |-> P]
             ELSE IF Range(names) \cap OptStrings(P) # {}
             THEN [exc |-> "ArgumentError", parser |-> P]
             ELSE [exc |-> NoExc,
                   parser |-> [P EXCEPT !.actions = Append(@,
                        [opts |-> names, dest |-> dest, kind |-> kwargs.action,
                         type |-> kwargs.type, default |-> kwargs.default,
                         required |-> FALSE])]]

\* for args, kwargs in cmd.arguments.values(): parser.add_argument(...)
RECURSIVE AddArguments(_, _, _)
AddArguments(P, arguments, k) ==
    IF k > Len(arguments) THEN [exc |-> NoExc, parser |-> P]
    ELSE LET r == ParserAddArgument(P, arguments[k].names, arguments[k].kwargs) IN
         IF r.exc # NoExc THEN r ELSE AddArguments(r.parser, arguments, k + 1)

HasParser(map, name) == \E k \in 1..Len(map) : map[k].key = name

ParserOf(map, name) == (CHOOSE k \in 1..Len(map) : map[k].key = name)

\* add_command with the check of cmd.func moved behind add_parser and the
\* add_argument loop
add_command_ParserFirst(heap, c, cmdList, map, dupCheck) ==
    LET cmd == heap[c] IN
    IF dupCheck /\ HasParser(map, cmd.name)
    THEN [exc |-> "ArgumentError", commands |-> cmdList, subparsers |-> map]
    ELSE LET r == AddArguments(NewParser(cmd.name), cmd.arguments, 1)
             added == DictSet(map, cmd.name, [key |-> cmd.name, parser |-> r.parser])
         IN  IF r.exc # NoExc
             THEN [exc |-> r.exc, commands |-> cmdList, subparsers |-> added]
             ELSE IF cmd.func = NoFunc
             THEN [exc |-> "Exception", commands |-> cmdList, subparsers |-> added]
             ELSE [exc |-> NoExc, commands |-> Append(cmdList, c),
                   subparsers |-> DictSet(map, cmd.name,
                                          [key |-> cmd.name,
                                           parser |-> [r.parser EXCEPT !.func = c]])]

\* add_command with self.commands.insert(0, cmd) in place of append
add_command_InsertFirst(heap, c, cmdList, map, dupCheck) ==
    LET cmd == heap[c] IN
    IF cmd.func = NoFunc
    THEN [exc |-> "Exception", commands |-> cmdList, subparsers |-> map]
    ELSE IF dupCheck /\ HasParser(map, cmd.name)
    THEN [exc |-> "ArgumentError", commands |-> cmdList, subparsers |-> map]
    ELSE LET r == AddArguments(NewParser(cmd.name), cmd.arguments, 1) IN
         IF r.exc # NoExc
         THEN [exc |-> r.exc, commands |-> cmdList,
               subparsers |-> DictSet(map, cmd.name,
                                      [key |-> cmd.name, parser |-> r.parser])]
         ELSE [exc |-> NoExc, commands |-> <<c>> \o cmdList,
               subparsers |-> DictSet(map, cmd.name,
                                      [key |-> cmd.name,
                                       parser |-> [r.parser EXCEPT !.func = c]])]

\* QRConsole.add_command(cmd) for the object c of heap: the exception it
\* ends with and the console's commands and subparsers after the call;
\* dupCheck: add_parser of this interpreter raises for a name it knows
\* (argparse of Python 3.11 and later), else the new parser replaces the old
add_command(heap, c, cmdList, map, dupCheck) ==
    LET cmd == heap[c] IN
    IF cmd.func = NoFunc
    THEN [exc |-> "Exception", commands |-> cmdList, subparsers |-> map]
    ELSE IF dupCheck /\ HasParser(map, cmd.name)
    THEN [exc |-> "ArgumentError", commands |-> cmdList, subparsers |-> map]
    ELSE LET r == AddArguments(NewParser(cmd.name), cmd.arguments, 1) IN
         IF r.exc # NoExc
         THEN [exc |-> r.exc, commands |-> cmdList,
               subparsers |-> DictSet(map, cmd.name,
                                      [key |-> cmd.name, parser |-> r.parser])]
         ELSE [exc |-> NoExc, commands |-> Append(cmdList, c),
               subparsers |-> DictSet(map, cmd.name,
                                      [key |-> cmd.name,
                                       parser |-> [r.parser EXCEPT !.func = c]])]

----------------------------------------------------------------------------
(* parse_args of the console's parser                                      *)

\* classification of one argument string by _parse_optional: "A" an
\* argument, "O" an option (act = 0: no action knows it), "-" the '--'
\* separator, "E" an ambiguous abbreviation
ClsRec(cls, act, opt, hasX, x) ==
    [cls |-> cls, act |-> act, opt |-> opt, hasX |-> hasX, x |-> x]

ClsArg == ClsRec("A", 0, <<>>, FALSE, <<>>)

ClsDash == ClsRec("-", 0, <<>>, FALSE, <<>>)

\* _negative_number_matcher: '^-\d+$|^-\d*\.\d+$'
IsNegNumber(s) ==
    /\ Len(s) >= 2
    /\ s[1] = "-"
    /\ LET r == Tail(s)
           d == FirstIndex(r, ".")
       IN  \/ AllDigits(r)
           \/ /\ d > 0
              /\ \A k \in 1..(d - 1) : r[k] \in Digits
              /\ AllDigits(DropFirst(r, d))

\* _get_option_tuples: the option strings an argument string abbreviates
OptionTuples(P, tok) ==
    IF tok[2] = "-"
    THEN LET e      == FirstIndex(tok, "=")
             prefix == IF e > 0 THEN SubSeq(tok, 1, e - 1) ELSE tok
             x      == IF e > 0 THEN DropFirst(tok, e) ELSE <<>>
         IN  { ClsRec("O", ActionOf(P, o), o, e > 0, x) :
                   o \in {q \in OptStrings(P) : StartsWith(q, prefix)} }
    ELSE LET short == SubSeq(tok, 1, 2) IN
         { ClsRec("O", ActionOf(P, o), o, TRUE, DropFirst(tok, 2)) :
               o \in {q \in OptStrings(P) : q = short} }
         \cup
         { ClsRec("O", ActionOf(P, o), o, FALSE, <<>>) :
               o \in {q \in OptStrings(P) : q # short /\ StartsWith(q, tok)} }

\* _parse_optional(arg_string)
ParseOptional(P, tok) ==
    IF tok = <<>> THEN ClsArg
    ELSE IF tok[1] # "-" THEN ClsArg
    ELSE IF tok \in OptStrings(P) THEN ClsRec("O", ActionOf(P, tok), tok, FALSE, <<>>)
    ELSE IF Len(tok) = 1 THEN ClsArg
    ELSE LET e == FirstIndex(tok, "=") IN
         IF e > 0 /\ SubSeq(tok, 1, e - 1) \in OptStrings(P)
         THEN ClsRec("O", ActionOf(P, SubSeq(tok, 1, e - 1)),
                     SubSeq(tok, 1, e - 1), TRUE, DropFirst(tok, e))
         ELSE LET tuples == OptionTuples(P, tok) IN
              IF Cardinality(tuples) > 1 THEN ClsRec("E", 0, tok, FALSE, <<>>)
              ELSE IF Cardinality(tuples) = 1 THEN CHOOSE t \in tuples : TRUE
              ELSE IF IsNegNumber(tok) /\ ~(\E o \in OptStrings(P) : IsNegNumber(o))
                   THEN ClsArg
              ELSE IF \E k \in 1..Len(tok) : tok[k] = " " THEN ClsArg
              ELSE ClsRec("O", 0, tok, FALSE, <<>>)

DashDash == <<"-", "-">>

\* the arg_strings_pattern: every string after the first '--' is an argument
Classify(P, args) ==
    LET dd == IF \E k \in 1..Len(args) : args[k] = DashDash
              THEN CHOOSE k \in 1..Len(args) :
                       args[k] = DashDash /\ \A j \in 1..(k - 1) : args[j] # DashDash
              ELSE Len(args) + 1
    IN  [k \in 1..Len(args) |->
            IF k < dd THEN ParseOptional(P, args[k])
            ELSE IF k = dd THEN ClsDash
            ELSE ClsArg]

\* nargs of an action: 0 for the flags, 1 (None) for a stored value
TakesValue(act) == act.kind = "store"

RECURSIVE CountDashes(_, _)
CountDashes(cl, i) ==
    IF i <= Len(cl) /\ cl[i].cls = "-" THEN 1 + CountDashes(cl, i + 1) ELSE 0

\* how many strings from position i the nargs pattern of a positional takes:
\* '(-*A-*)' for a stored value, '(-*A[-AO]*)' for the subparsers; -1: no match
MatchPositional(act, cl, i) ==
    LET d1 == CountDashes(cl, i)
        j  == i + d1
    IN  IF j <= Len(cl) /\ cl[j].cls = "A"
        THEN IF act.kind = "parsers"
             THEN Len(cl) - i + 1
             ELSE d1 + 1 + CountDashes(cl, j + 1)
        ELSE 0 - 1

\* _match_arguments_partial: the counts of the longest run of the remaining
\* positionals whose patterns match from position i
RECURSIVE MatchPartial(_, _, _, _)
MatchPartial(P, pos, cl, i) ==
    IF pos = <<>> THEN <<>>
    ELSE LET n == MatchPositional(P.actions[Head(pos)], cl, i) IN
         IF n < 0 THEN <<>>
         ELSE <<n>> \o MatchPartial(P, Tail(pos), cl, i + n)

\* arg_strings.remove('--'): without the first '--'
RemoveDashDash(ss) ==
    IF \E k \in 1..Len(ss) : ss[k] = DashDash
    THEN LET d == CHOOSE k \in 1..Len(ss) :
                      ss[k] = DashDash /\ \A j \in 1..(k - 1) : ss[j] # DashDash
         IN  SubSeq(ss, 1, d - 1) \o SubSeq(ss, d + 1, Len(ss))
    ELSE ss

SetAttr(ns, dest, v) == [k \in (DOMAIN ns) \cup {dest} |-> IF k = dest THEN v ELSE ns[k]]

EmptyNs == [k \in {} |-> NoneVal]

\* what a call prints: parser.print_help() of QRHelpAction, or the
\* red message of the except branch of __read_line
HelpPrint(prog) == [kind |-> "help", prog |-> prog, err |-> "none", toks |-> <<>>]

ErrorPrint(e) == [kind |-> "error", prog |-> <<>>, err |-> e.kind, toks |-> e.toks]

RECURSIVE ParseKnownArgs(_, _, _)
RECURSIVE TakeAction(_, _, _, _, _)
RECURSIVE TakeTuples(_, _, _, _)
RECURSIVE TakePositionals(_, _, _, _, _)
RECURSIVE OptionalTuples(_, _, _, _, _, _, _, _)
RECURSIVE ParseLoop(_, _, _, _, _, _)

\* take_action(action, argument_strings): _get_values, then the action
TakeAction(P, st, a, argStrs, map) ==
    LET act == P.actions[a]
        st1 == [st EXCEPT !.seen = @ \cup {a}]
    IN  CASE act.kind = "help" ->
                 [st1 EXCEPT !.out = Append(@, HelpPrint(P.prog))]
          [] act.kind = "store_true" ->
                 [st1 EXCEPT !.ns = SetAttr(@, act.dest, BoolVal(TRUE))]
          [] act.kind = "store" ->
                 LET v == RemoveDashDash(argStrs)[1] IN
                 IF act.type = "int"
                 THEN IF IsIntText(v)
                      THEN [st1 EXCEPT !.ns = SetAttr(@, act.dest, IntVal(IntOf(v)))]
                      ELSE [st1 EXCEPT !.err = Err("invalid int value", <<v>>)]
                 ELSE [st1 EXCEPT !.ns = SetAttr(@, act.dest, StrVal(v))]
          [] act.kind = "parsers" ->
                 LET parser_name == argStrs[1] IN
                 IF ~HasParser(map, parser_name)
                 THEN [st1 EXCEPT !.err = Err("invalid choice", <<parser_name>>)]
                 ELSE LET sub == ParseKnownArgs(map[ParserOf(map, parser_name)].parser,
                                                Tail(argStrs), <<>>)
                      IN  [st1 EXCEPT
                              !.ns = [k \in (DOMAIN @) \cup (DOMAIN sub.ns) |->
                                          IF k \in DOMAIN sub.ns THEN sub.ns[k] ELSE @[k]],
                              !.func = sub.func,
                              !.unrec = @ \o sub.extras,
                              !.out = @ \o sub.out,
                              !.err = sub.err]

\* the action_tuples of consume_optional, taken in order
TakeTuples(P, st, tuples, map) ==
    IF tuples = <<>> \/ st.err # NoErr THEN st
    ELSE TakeTuples(P, TakeAction(P, st, Head(tuples).act, Head(tuples).args, map),
                    Tail(tuples), map)

\* the while loop of consume_optional for the option at index i: the
\* action tuples and the index parsing resumes at, or the error raised
OptionalTuples(P, a, o, hasX, x, tuples, i, argsCl) ==
    LET act  == P.actions[a]
        args == argsCl.args
        cl   == argsCl.cl
    IN  IF hasX
        THEN IF ~TakesValue(act) /\ o[2] # "-" /\ x # <<>>
             THEN LET o2 == <<o[1], x[1]>>
                      x2 == Tail(x)
                  IN  IF o2 \in OptStrings(P)
                      THEN OptionalTuples(P, ActionOf(P, o2), o2, x2 # <<>>, x2,
                                          Append(tuples, [act |-> a, args |-> <<>>]),
                                          i, argsCl)
                      ELSE [err |-> Err("ignored explicit argument", <<x>>),
                            tuples |-> <<>>, stop |-> i]
             ELSE IF TakesValue(act)
             THEN [err |-> NoErr,
                   tuples |-> Append(tuples, [act |-> a, args |-> <<x>>]),
                   stop |-> i + 1]
             ELSE [err |-> Err("ignored explicit argument", <<x>>),
                   tuples |-> <<>>, stop |-> i]
        ELSE IF TakesValue(act)
             THEN IF i + 1 <= Len(cl) /\ cl[i + 1].cls = "A"
                  THEN [err |-> NoErr,
                        tuples |-> Append(tuples, [act |-> a, args |-> <<args[i + 1]>>]),
                        stop |-> i + 2]
                  ELSE [err |-> Err("expected one argument", <<>>),
                        tuples |-> <<>>, stop |-> i]
             ELSE [err |-> NoErr,
                   tuples |-> Append(tuples, [act |-> a, args |-> <<>>]),
                   stop |-> i + 1]

\* consume_optional(start_index)
ConsumeOptional(P, st, args, cl, map) ==
    LET c == cl[st.i] IN
    IF c.act = 0
    THEN [st EXCEPT !.extras = Append(@, args[st.i]), !.i = @ + 1]
    ELSE LET r == OptionalTuples(P, c.act, c.opt, c.hasX, c.x, <<>>, st.i,
                                 [args |-> args, cl |-> cl])
         IN  IF r.err # NoErr THEN [st EXCEPT !.err = r.err]
             ELSE [TakeTuples(P, st, r.tuples, map) EXCEPT !.i = r.stop]

\* the loop of consume_positionals over the matched positionals
TakePositionals(P, st, counts, args, map) ==
    IF counts = <<>> \/ st.err # NoErr THEN st
    ELSE LET n == Head(counts) IN
         TakePositionals(P,
             TakeAction(P, [st EXCEPT !.i = @ + n, !.pos = Tail(@)],
                        Head(st.pos), SubSeq(args, st.i, st.i + n - 1), map),
             Tail(counts), args, map)

\* consume_positionals(start_index)
ConsumePositionals(P, st, args, cl, map) ==
    TakePositionals(P, st, MatchPartial(P, st.pos, cl, st.i), args, map)

OptionIndices(cl) == {k \in 1..Len(cl) : cl[k].cls = "O"}

\* the names of the required actions that were not seen
RECURSIVE MissingRequired(_, _, _)
MissingRequired(P, seen, k) ==
    IF k > Len(P.actions) THEN <<>>
    ELSE (IF k \notin seen /\ P.actions[k].required
          THEN <<P.actions[k].dest>> ELSE <<>>)
         \o MissingRequired(P, seen, k + 1)

\* after the loop: the positionals following the last option, the strings
\* left over, and the check of the required actions
FinishParse(P, st, args, cl, map) ==
    LET st1 == ConsumePositionals(P, st, args, cl, map) IN
    IF st1.err # NoErr THEN st1
    ELSE LET st2 == [st1 EXCEPT !.extras = @ \o SubSeq(args, st1.i, Len(args))]
             missing == MissingRequired(P, st2.seen, 1)
         IN  IF missing # <<>>
             THEN [st2 EXCEPT !.err = Err("the following arguments are required", missing)]
             ELSE st2

\* the loop of _parse_known_args that consumes positionals and options in turn
ParseLoop(P, st, args, cl, map, maxOpt) ==
    IF st.err # NoErr THEN st
    ELSE IF st.i > maxOpt THEN FinishParse(P, st, args, cl, map)
    ELSE LET next == CHOOSE k \in OptionIndices(cl) :
                         k >= st.i /\ \A j \in OptionIndices(cl) : j >= st.i => k <= j
             st1  == IF st.i # next THEN ConsumePositionals(P, st, args, cl, map) ELSE st
         IN  IF st1.err # NoErr THEN st1
             ELSE IF st1.i > st.i THEN ParseLoop(P, st1, args, cl, map, maxOpt)
             ELSE LET st2 == IF cl[st1.i].cls # "O"
                             THEN [st1 EXCEPT !.extras = @ \o SubSeq(args, st1.i, next - 1),
                                              !.i = next]
                             ELSE st1
                  IN  ParseLoop(P, ConsumeOptional(P, st2, args, cl, map),
                                args, cl, map, maxOpt)

\* the namespace parse_known_args starts from: the default of every action
\* that has a dest, the first action of a dest winning
RECURSIVE DefaultNs(_, _, _)
DefaultNs(P, ns, k) ==
    IF k > Len(P.actions) THEN ns
    ELSE LET act == P.actions[k] IN
         DefaultNs(P,
                   IF act.dest # Suppress /\ act.dest \notin DOMAIN ns
                   THEN SetAttr(ns, act.dest, act.default) ELSE ns,
                   k + 1)

PositionalActions(P) ==
    SelectSeq([k \in 1..Len(P.actions) |-> k], LAMBDA k : P.actions[k].opts = <<>>)

\* parse_known_args(args): namespace, func default, extras, what was printed
\* on the way, and the error raised, if any
ParseKnownArgs(P, args, map) ==
    LET cl  == Classify(P, args)
        st0 == [i |-> 1, pos |-> PositionalActions(P),
                ns |-> DefaultNs(P, EmptyNs, 1), func |-> P.func,
                unrec |-> <<>>, extras |-> <<>>, out |-> <<>>,
                err |-> NoErr, seen |-> {}]
        oi  == OptionIndices(cl)
        maxOpt == IF oi = {} THEN 0 ELSE CHOOSE k \in oi : \A j \in oi : j <= k
    IN  IF \E k \in 1..Len(cl) : cl[k].cls = "E"
        THEN [st0 EXCEPT !.err =
                 Err("ambiguous option",
                     <<cl[CHOOSE k \in 1..Len(cl) :
                              cl[k].cls = "E" /\ \A j \in 1..(k - 1) : cl[j].cls # "E"].opt>>)]
        ELSE LET r == ParseLoop(P, st0, args, cl, map, maxOpt) IN
             [r EXCEPT !.extras = @ \o r.unrec, !.unrec = <<>>]

\* self.parser.parse_args(s): parse_known_args, and an error for extras
parse_args(args, map) ==
    LET r == ParseKnownArgs(MainParser, args, map) IN
    IF r.err = NoErr /\ r.extras # <<>>
    THEN [r EXCEPT !.err = Err("unrecognized arguments", r.extras)]
    ELSE r

----------------------------------------------------------------------------
(* Bounds and inputs of the console                                        *)

\* add_command calls the host program makes before run()
MaxCommands == 2

\* longest input line, in parts of LineParts
MaxParts == 2

ADD == <<"a", "d", "d">>
SUB == <<"s", "u", "b">>
OptH     == <<"-", "h">>
OptHelp  == <<"-", "-", "h", "e", "l", "p">>
OptHe    == <<"-", "-", "h", "e">>
OptValue == <<"-", "-", "v", "a", "l", "u", "e">>
OptV     == <<"-", "v">>
OptA     == <<"-", "a">>
OptDryRun == <<"-", "-", "d", "r", "y", "-", "r", "u", "n">>

\* the commands a host program builds, as in the usage example:
\*   QRCommand('add', f).add_argument('a', type=int).add_argument('b', type=int)
BuildAdd ==
    add_argument(add_argument(QRCommand(ADD, "f"), <<"a">>, <<>>, KwInt),
                 <<"b">>, <<>>, KwInt)

\*   QRCommand('sub', g).add_argument('-a', type=int, default=0)
\*                      .add_argument('--value', '-v', type=int)
BuildSub ==
    add_argument(add_argument(QRCommand(SUB, "g"), OptA, <<>>, KwIntDefault),
                 OptValue, <<OptV>>, KwInt)

\*   QRCommand('add', g).add_argument('--dry-run', action='store_true')
BuildDry ==
    add_argument(QRCommand(ADD, "g"), OptDryRun, <<>>, KwStoreTrue)

\*   QRCommand('sub').add_argument('a', type=int)       (no function)
BuildNoFunc ==
    add_argument(QRCommand(SUB, NoFunc), <<"a">>, <<>>, KwInt)

Builders == {BuildAdd, BuildSub, BuildDry, BuildNoFunc}

\* the parts input lines are put together from: single words and the
\* argument list of a complete add line
LineParts ==
    { ADD, SUB, OptH, OptHelp, <<"1">>, OptValue \o <<"=", "5">>,
      ADD \o <<" ", "1", " ", "1">> }

\* lines with an abbreviated --help, with a quoted span, with the sentinel
\* text, with blanks only
SpecialLines ==
    { OptHe, ADD \o <<" ", "1", " ", "1", " ">> \o OptHe,
      ADD \o <<" ", Quote, "1", Quote>>,
      fill, OptH \o <<" ">> \o fill, ADD \o <<" ">> \o fill \o <<" ">> \o OptHelp,
      <<" ", " ">> }

Lines ==
    { JoinSpace(ws) : ws \in UNION { [1..n -> LineParts] : n \in 0..MaxParts } }
        \cup SpecialLines

\* what a handler does when it is called: return, raise an Exception, or
\* raise SystemExit (sys.exit(0))
HandlerOutcomes == {"return", "raise", "exit"}

NoStatus == 0 - 1

\* input() returned nothing: no line was read yet, or the input has ended
NoLine == <<"EOF">>

----------------------------------------------------------------------------
(* QRConsole: construction, add_command, run and __read_line               *)

ClearCycle ==
    /\ line' = NoLine
    /\ tokens' = <<>>
    /\ is_help' = "None"
    /\ printed' = <<>>
    /\ called' = <<>>
    /\ caught' = NoErr

\* QRConsole(throw_errors=...)
Init ==
    /\ tokLine = <<>>
    /\ tokOut = Pending
    /\ cmds = <<>>
    /\ commands = <<>>
    /\ subparsers = <<>>
    /\ throw_errors \in BOOLEAN
    /\ pyDupCheck = "unknown"
    /\ pc = "setup"
    /\ lastAdd = NoExc
    /\ line = NoLine
    /\ tokens = <<>>
    /\ is_help = "None"
    /\ printed = <<>>
    /\ called = <<>>
    /\ caught = NoErr
    /\ exitStatus = NoStatus

\* console.add_command(QRCommand(...).add_argument(...)...); the call that
\* first hands add_parser a name it knows shows which interpreter runs
AddCommand(b) ==
    /\ pc = "setup"
    /\ Len(cmds) < MaxCommands
    /\ LET heap == Append(cmds, b)
           reachesAddParser == b.func # NoFunc /\ HasParser(subparsers, b.name)
       IN  \E dup \in (IF reachesAddParser /\ pyDupCheck = "unknown"
                       THEN {"yes", "no"} ELSE {pyDupCheck}) :
              LET r == add_command(heap, Len(heap), commands, subparsers, dup = "yes")
              IN  /\ cmds' = heap
                  /\ commands' = r.commands
                  /\ subparsers' = r.subparsers
                  /\ lastAdd' = r.exc
                  /\ pyDupCheck' = dup
    /\ UNCHANGED <<tokVars, throw_errors, pc, cycleVars, exitStatus>>

\* console.run(): the first call of __read_line waits in input('?>')
Run ==
    /\ pc = "setup"
    /\ pc' = "prompt"
    /\ UNCHANGED <<tokVars, regVars, cycleVars, exitStatus>>

\* is_help computed as '-h' in s alone
HasHelpMarker_ShortOnly(s) == \E k \in 1..Len(s) : s[k] = OptH

\* '-h' in s or '--help' in s
HasHelpMarker(s) == \E k \in 1..Len(s) : s[k] = OptH \/ s[k] = OptHelp

\* the except branch with sys.exit(1) outside of 'if self.throw_errors'
Except_AlwaysExit(ih, out, e) ==
    IF ih # "True"
    THEN [caught |-> e, printed |-> Append(out, ErrorPrint(e)), exit |-> 1]
    ELSE [caught |-> e, printed |-> out, exit |-> NoStatus]

\* the except branch without the sys.exit(1) of throw_errors
Except_NeverExit(ih, out, e) ==
    IF ih # "True"
    THEN [caught |-> e, printed |-> Append(out, ErrorPrint(e)), exit |-> NoStatus]
    ELSE [caught |-> e, printed |-> out, exit |-> NoStatus]

\* the except branch of __read_line: the message unless is_help, then
\* sys.exit(1) when throw_errors
Except(ih, out, e) ==
    IF ih # "True"
    THEN [caught |-> e, printed |-> Append(out, ErrorPrint(e)),
          exit |-> IF throw_errors THEN 1 ELSE NoStatus]
    ELSE [caught |-> e, printed |-> out, exit |-> NoStatus]

\* the try block ran to its end
NoExcept(out) == [caught |-> NoErr, printed |-> out, exit |-> NoStatus]

\* extract_args(data) of add_command: the namespace value of every key of
\* cmd.arguments, in the order of the keys
HandlerArgs(cmd, ns) == [k \in 1..Len(cmd.arguments) |-> ns[cmd.arguments[k].key]]

MissingKeys(cmd, ns) ==
    SelectSeq([k \in 1..Len(cmd.arguments) |-> cmd.arguments[k].key],
              LAMBDA key : key \notin DOMAIN ns)

\* a call of __read_line that does not reach the handler
Quiet(s, ih, out) ==
    [tokens |-> s, is_help |-> ih, invoke |-> FALSE, call |-> <<>>, out |-> out]

\* args.func(args) up to the call of cmd.func: the lambda of add_command
\* reads the namespace value of every key of cmd.arguments
CallFunc(s, ih, r, cmd, missing) ==
    IF missing # <<>>
    THEN Quiet(s, ih, r.out) @@ Except(ih, r.out, Err("KeyError", <<missing[1]>>))
    ELSE IF cmd.func = NoFunc
    THEN Quiet(s, ih, r.out) @@ Except(ih, r.out, Err("TypeError", <<>>))
    ELSE [tokens |-> s, is_help |-> ih, invoke |-> TRUE,
          call |-> <<[cmd |-> r.func, func |-> cmd.func,
                      args |-> HandlerArgs(cmd, r.ns)]>>,
          out |-> r.out] @@ NoExcept(r.out)

\* the try block once parse_args(s) ended with r; heap holds the QRCommand
\* objects as they are when the line is read
DispatchParsed(heap, s, ih, r) ==
    IF r.err # NoErr
    THEN Quiet(s, ih, r.out) @@ Except(ih, r.out, r.err)
    ELSE IF ~(r.func # 0 /\ ih = "False")
    THEN Quiet(s, ih, r.out) @@ NoExcept(r.out)
    ELSE CallFunc(s, ih, r, heap[r.func], MissingKeys(heap[r.func], r.ns))

\* the try block once extract_args ended with t
DispatchTokens(heap, t) ==
    IF t.exc # NoExc
    THEN Quiet(<<>>, "None", <<>>) @@ Except("None", <<>>, Err(t.exc, <<>>))
    ELSE DispatchParsed(heap, t.args,
                        IF HasHelpMarker(t.args) THEN "True" ELSE "False",
                        parse_args(t.args, subparsers))

\* the body of __read_line() once input() returned data, up to the call of
\* the handler: whether the handler is called (invoke) and with what, or
\* how the call of __read_line ends without it
Dispatch(data) == DispatchTokens(cmds, extract_args(data))

\* args.func(args) when the handler does outcome: SystemExit passes the
\* except branch, an Exception enters it
AfterHandler(d, outcome) ==
    CASE outcome = "return" -> NoExcept(d.out)
      [] outcome = "raise"  -> Except(d.is_help, d.out, Err("handler exception", <<>>))
      [] outcome = "exit"   -> [caught |-> NoErr, printed |-> d.out, exit |-> 0]

\* the state a call of __read_line leaves behind
EndCycle(data, d, res) ==
    /\ line' = data
    /\ tokens' = d.tokens
    /\ is_help' = d.is_help
    /\ printed' = res.printed
    /\ called' = d.call
    /\ caught' = res.caught
    /\ exitStatus' = res.exit
    /\ pc' = IF res.exit # NoStatus THEN "exited" ELSE "returned"

\* the handler, when it is called, returns, raises or exits
HandleLine(data, d) ==
    \E outcome \in (IF d.invoke THEN HandlerOutcomes ELSE {"return"}) :
        EndCycle(data, d, IF d.invoke THEN AfterHandler(d, outcome)
                          ELSE [caught |-> d.caught, printed |-> d.printed,
                                exit |-> d.exit])

\* __read_line() with input() returning data
ReadLine(data) ==
    /\ pc = "prompt"
    /\ HandleLine(data, Dispatch(data))
    /\ UNCHANGED <<tokVars, regVars>>

\* __read_line() with input() raising EOFError at end of input
ReadEOF ==
    /\ pc = "prompt"
    /\ EndCycle(NoLine, Quiet(<<>>, "None", <<>>),
                Except("None", <<>>, Err("EOFError", <<>>)))
    /\ UNCHANGED <<tokVars, regVars>>

\* while True: the next call of __read_line
LoopBack ==
    /\ pc = "returned"
    /\ pc' = "prompt"
    /\ ClearCycle
    /\ UNCHANGED <<tokVars, regVars, exitStatus>>

Next ==
    \/ \E b \in Builders : AddCommand(b)
    \/ Run
    \/ \E data \in Lines : ReadLine(data)
    \/ ReadEOF
    \/ LoopBack

Spec == Init /\ [][Next]_vars

\* while True: a call of __read_line that returned is followed by the next
SpecLive == Spec /\ WF_vars(LoopBack)

----------------------------------------------------------------------------
(* A host program that goes on using its QRCommand objects after it passed *)
(* them to add_command, and that declares an option twice                  *)

OptX == <<"-", "x">>

\*   QRCommand('sub', g).add_argument('-v', type=int)
\*                      .add_argument('--value', '-v', type=int)
\* the second declaration repeats the option string '-v' of the first
BuildBad ==
    add_argument(add_argument(QRCommand(SUB, "g"), OptV, <<>>, KwInt),
                 OptValue, <<OptV>>, KwInt)

HostBuilders == Builders \cup {BuildBad}

HostLines ==
    { SUB, ADD, ADD \o <<" ", "1", " ", "1">>,
      SUB \o <<" ">> \o OptValue \o <<"=", "5">> }

\* cmd.set_func(h) on an object the host passed to add_command before
SetFunc(c) ==
    /\ pc = "setup"
    /\ cmds[c].func # "h"
    /\ cmds' = [cmds EXCEPT ![c] = set_func(@, "h")]
    /\ UNCHANGED <<tokVars, commands, subparsers, throw_errors, pyDupCheck,
                   lastAdd, pc, cycleVars, exitStatus>>

\* cmd.add_argument('-x', type=int) on an object the host passed to
\* add_command before
AddArgumentLate(c) ==
    /\ pc = "setup"
    /\ \A k \in 1..Len(cmds[c].arguments) : cmds[c].arguments[k].key # <<"x">>
    /\ cmds' = [cmds EXCEPT ![c] = add_argument(@, OptX, <<>>, KwInt)]
    /\ UNCHANGED <<tokVars, commands, subparsers, throw_errors, pyDupCheck,
                   lastAdd, pc, cycleVars, exitStatus>>

HostNext ==
    \/ \E b \in HostBuilders : AddCommand(b)
    \/ \E c \in 1..Len(cmds) : SetFunc(c)
    \/ \E c \in 1..Len(cmds) : AddArgumentLate(c)
    \/ Run
    \/ \E data \in HostLines : ReadLine(data)
    \/ LoopBack

SpecHost == Init /\ [][HostNext]_vars

----------------------------------------------------------------------------
(* extract_args called on its own with a line built from pieces            *)

TokPieces ==
    { <<"a">>, <<" ">>, <<Quote>>,
      <<Quote, "a", Quote>>, <<Quote, " ", Quote>>,
      fill }

RECURSIVE Flatten(_)
Flatten(ps) == IF ps = <<>> THEN <<>> ELSE Head(ps) \o Flatten(Tail(ps))

TokLines ==
    { Flatten(ps) : ps \in UNION { [1..n -> TokPieces] : n \in 0..MaxPieces } }

TokInit ==
    /\ tokLine \in TokLines
    /\ tokOut = Pending
    /\ cmds = <<>>
    /\ commands = <<>>
    /\ subparsers = <<>>
    /\ throw_errors = FALSE
    /\ pyDupCheck = "unknown"
    /\ pc = "setup"
    /\ lastAdd = NoExc
    /\ line = NoLine
    /\ tokens = <<>>
    /\ is_help = "None"
    /\ printed = <<>>
    /\ called = <<>>
    /\ caught = NoErr
    /\ exitStatus = NoStatus

Tokenize ==
    /\ tokOut = Pending
    /\ tokOut' = extract_args(tokLine)
    /\ UNCHANGED <<tokLine, regVars, cycleVars, pc, exitStatus>>

TokNext == Tokenize

SpecTok == TokInit /\ [][TokNext]_vars

----------------------------------------------------------------------------
(* Properties of the dispatch loop and of the registry                     *)

\* a call of __read_line has ended, by returning or by ending the process
CycleDone == pc \in {"returned", "exited"}

\* the token sequence of the line holds '-h' or '--help'
HelpRequested == \E k \in 1..Len(tokens) : tokens[k] \in {OptH, OptHelp}

ErrorCount(out) == Cardinality({k \in 1..Len(out) : out[k].kind = "error"})

RegisteredNames == {cmds[commands[k]].name : k \in 1..Len(commands)}

\* C1: while a line whose tokens hold '-h' or '--help' is processed, no
\* command handler is invoked, whatever is registered and whatever the
\* other tokens are.
C1_HelpInvokesNoHandler == (CycleDone /\ HelpRequested) => called = <<>>

\* 'add 1 1 -h' with the add of the usage example registered: the help of
\* add is printed and f is not called
C1_Witness ==
    /\ pc = "returned"
    /\ tokens = <<ADD, <<"1">>, <<"1">>, OptH>>
    /\ commands = <<1>> /\ cmds[1] = BuildAdd
    /\ Len(printed) = 1 /\ printed[1].kind = "help"
    /\ called = <<>>

\* a line that is no help request ended in the except branch
PerLineError == CycleDone /\ caught # NoErr /\ is_help # "True"

\* C2: in report mode (throw_errors = False) every per-line error (unknown
\* command, argument parse error, exception raised by a handler) of a line
\* that is no help request produces exactly one error message, does not end
\* the run loop, and the loop comes back to awaiting input.
C2_ReportModeRecovers ==
    /\ []((~throw_errors /\ PerLineError)
            => (ErrorCount(printed) = 1 /\ pc = "returned" /\ exitStatus = NoStatus))
    /\ ((~throw_errors /\ PerLineError) ~> (pc = "prompt"))

\* a handler that raised, in report mode: one message, the call returned
C2_Witness ==
    /\ ~throw_errors
    /\ pc = "returned"
    /\ called # <<>>
    /\ caught = Err("handler exception", <<>>)
    /\ ErrorCount(printed) = 1

\* a line that is no help request produced a dispatch error
DispatchError == CycleDone /\ caught # NoErr /\ is_help = "False"

\* C3: with throw_errors = True a line that produces a dispatch error and
\* is no help request ends the process with exit status 1 after the error
\* was displayed; with throw_errors = False the same line leaves the loop
\* running and the process never exits with an error status.
C3_ThrowModeExitsWithOne ==
    /\ DispatchError =>
          IF throw_errors
          THEN /\ pc = "exited" /\ exitStatus = 1
               /\ printed # <<>> /\ printed[Len(printed)] = ErrorPrint(caught)
          ELSE pc = "returned" /\ exitStatus = NoStatus
    /\ ~throw_errors => exitStatus # 1

\* 'add' with the add of the usage example registered, in throw mode
C3_Witness ==
    /\ throw_errors
    /\ tokens = <<ADD>>
    /\ caught = Err("the following arguments are required", << <<"a">>, <<"b">> >>)
    /\ pc = "exited" /\ exitStatus = 1

\* C4: adding a command whose name is already registered fails, so that
\* after any sequence of add_command calls no two registered commands
\* share a name.
C4_NoTwoCommandsShareAName ==
    \A i, j \in 1..Len(commands) :
        i # j => cmds[commands[i]].name # cmds[commands[j]].name

\* C6: in report mode a line without a help marker whose first token is
\* not a registered command name yields an error whose message names that
\* token, invokes no handler, and the call returns to the loop.
C6_UnknownCommandNamed ==
    (/\ ~throw_errors /\ CycleDone
     /\ tokens # <<>> /\ ~HelpRequested
     /\ tokens[1] \notin RegisteredNames)
        => /\ called = <<>>
           /\ pc = "returned"
           /\ ErrorCount(printed) = 1
           /\ \E k \in 1..Len(printed) :
                  printed[k].kind = "error" /\ tokens[1] \in Range(printed[k].toks)

\* C7: when input() signals the end of the input the loop ends cleanly:
\* the run stops without an error message and without an error status, in
\* report mode and in throw mode.
C7_EndOfInputEndsRun ==
    (CycleDone /\ line = NoLine)
        => (pc = "exited" /\ exitStatus # 1 /\ ErrorCount(printed) = 0)

\* the errors parse_args raises for a line
ParseErrorKinds ==
    { "invalid choice", "invalid int value", "expected one argument",
      "ignored explicit argument", "ambiguous option",
      "the following arguments are required", "unrecognized arguments" }

\* the line names a registered command first, is no help request, and
\* parse_args accepted it
ResolvedLine ==
    /\ CycleDone /\ line # NoLine
    /\ is_help = "False"
    /\ tokens # <<>> /\ tokens[1] \in RegisteredNames
    /\ caught.kind \notin ParseErrorKinds

\* C8: for a line that resolves against a registered command (no help
\* marker) the handler is invoked exactly once, with one value per declared
\* argument in the order of the add_argument calls, defaults filling the
\* optional arguments the line does not supply: 'sub --value=5' calls the
\* handler of sub with (0, 5), 'add 1 1' the handler of add with (1, 1).
C8_HandlerGetsDeclaredValues ==
    ResolvedLine =>
        /\ Len(called) = 1
        /\ Len(called[1].args) = Len(cmds[called[1].cmd].arguments)
        /\ cmds[called[1].cmd].name = tokens[1]
        /\ (cmds[called[1].cmd] = BuildSub /\ tokens = <<SUB, OptValue \o <<"=", "5">> >>)
               => called[1].args = <<IntVal(0), IntVal(5)>>
        /\ (cmds[called[1].cmd] = BuildAdd /\ tokens = <<ADD, <<"1">>, <<"1">> >>)
               => called[1].args = <<IntVal(1), IntVal(1)>>

\* a whitespace-separated word of the line is '-h' or '--help'
HelpWordInLine ==
    /\ line # NoLine
    /\ \E k \in 1..Len(split(line, 1, <<>>)) : split(line, 1, <<>>)[k] \in {OptH, OptHelp}

\* C9: a line that holds a help marker never takes the error path: no
\* error message is printed and the process does not end, also with
\* throw_errors = True; the call returns to the loop.
C9_HelpLineNeverErrors ==
    (CycleDone /\ HelpWordInLine)
        => (ErrorCount(printed) = 0 /\ pc = "returned" /\ exitStatus = NoStatus)

\* C10: add_command of a command without a function raises, and the call
\* leaves the console's commands and the parser's subcommands as they were.
C10_NoFuncLeavesConsoleUnchanged ==
    [][(Len(cmds') > Len(cmds) /\ cmds'[Len(cmds')].func = NoFunc)
          => (lastAdd' = "Exception" /\ commands' = commands
              /\ subparsers' = subparsers)]_vars

\* the call without a function came after a command was registered
C10_Witness ==
    /\ lastAdd = "Exception"
    /\ Len(cmds) = 2 /\ cmds[2].func = NoFunc
    /\ commands = <<1>>
    /\ Len(subparsers) = 1

\* the position of the first '-h' or '--help' among the tokens
FirstHelp == CHOOSE k \in 1..Len(tokens) :
                /\ tokens[k] \in {OptH, OptHelp}
                /\ \A j \in 1..(k - 1) : tokens[j] \notin {OptH, OptHelp}

\* the registered command names that stand before the first help marker
NamedBeforeHelp == {j \in 1..(FirstHelp - 1) : tokens[j] \in RegisteredNames}

\* C11: every line whose tokens hold '-h' or '--help' has help text printed
\* before the next prompt: the help of the whole shell when no command name
\* stands before the marker, otherwise the help of the command named there.
C11_HelpLinePrintsHelp ==
    (CycleDone /\ HelpRequested)
        => \E k \in 1..Len(printed) :
              /\ printed[k].kind = "help"
              /\ printed[k].prog =
                    IF NamedBeforeHelp = {} THEN PROG
                    ELSE tokens[CHOOSE j \in NamedBeforeHelp :
                                   \A i \in NamedBeforeHelp : j <= i]

\* the declared name without its one or two leading dashes
Undashed(name) ==
    IF Len(name) >= 2 /\ name[1] = "-" /\ name[2] = "-"
    THEN SubSeq(name, 3, Len(name))
    ELSE IF name[1] = "-" THEN SubSeq(name, 2, Len(name)) ELSE name

\* C13: for an optional argument (declared '-x' or '--x') add_argument
\* stores the short form '-x' and the long form '--x' among the names of
\* the argument, under the bare key 'x'; for a positional argument declared
\* by a bare name the key and the only name are that bare name.
C13_StoredNames ==
    \A c \in 1..Len(cmds) : \A k \in 1..Len(cmds[c].arguments) :
        LET a == cmds[c].arguments[k]
            declared == a.names[1]
        IN  /\ a.key = Undashed(declared)
            /\ IF declared[1] = "-"
               THEN /\ (<<"-">> \o a.key) \in Range(a.names)
                    /\ (<<"-", "-">> \o a.key) \in Range(a.names)
               ELSE a.names = <<declared>>

\* arguments declared with '-x' alone, with '--dry-run' alone and with the
\* positional 'a' were stored
C13_Witness ==
    /\ \E c \in 1..Len(cmds) : \E k \in 1..Len(cmds[c].arguments) :
          cmds[c].arguments[k].names = <<OptX, OptX, <<"-", "-", "x">> >>
    /\ \E c \in 1..Len(cmds) : \E k \in 1..Len(cmds[c].arguments) :
          cmds[c].arguments[k].names =
              <<OptDryRun, <<"-">> \o Undashed(OptDryRun), OptDryRun>>
    /\ \E c \in 1..Len(cmds) : \E k \in 1..Len(cmds[c].arguments) :
          cmds[c].arguments[k].names = << <<"a">> >>

\* the subcommand names the parser dispatches on
SubparserNames == {subparsers[k].key : k \in 1..Len(subparsers)}

BlankLine == \A k \in 1..Len(line) : line[k] = " "

\* C17: an empty or whitespace-only line is a no-op: no handler is invoked,
\* no error message is rendered, the process does not exit even with
\* throw_errors = True, and the loop returns to awaiting input.
C17_BlankLineIsNoOp ==
    (CycleDone /\ BlankLine) =>
        /\ tokens = <<>>
        /\ called = <<>>
        /\ printed = <<>>
        /\ caught = NoErr
        /\ pc = "returned" /\ exitStatus = NoStatus

\* the line of two blanks in throw mode, two commands registered
C17_Witness ==
    /\ throw_errors
    /\ Len(commands) = 2
    /\ line = <<" ", " ">>
    /\ pc = "returned"

\* C19: add_command is all-or-nothing: after any sequence of add_command
\* calls, succeeding or failing at any step, the set of names in the command
\* list equals the set of subcommand names the parser dispatches on.
C19_CommandsMatchSubcommands == RegisteredNames = SubparserNames

\* a step of the host that changes a QRCommand object already passed to
\* add_command, and nothing else
ChangesRegisteredCommand ==
    /\ Len(cmds') = Len(cmds)
    /\ subparsers' = subparsers
    /\ \E k \in 1..Len(commands) : cmds'[commands[k]] # cmds[commands[k]]

\* C20: a command is finalized at registration: set_func or add_argument on
\* a QRCommand after it was passed to add_command changes neither which
\* handler a later dispatch invokes nor the values it is invoked with.
C20_FinalizedAtRegistration ==
    [][ChangesRegisteredCommand =>
           \A data \in HostLines :
               DispatchTokens(cmds', extract_args(data)) = Dispatch(data)]_vars

----------------------------------------------------------------------------
(* What the tokenizer is specified to return, read off the line itself     *)

CountQuotes(s) == Cardinality({i \in 1..Len(s) : s[i] = Quote})

BalancedQuotes(s) == CountQuotes(s) % 2 = 0

\* the pieces of a line, quotes paired first with second, third with fourth:
\* an unquoted word is a maximal run without whitespace and quotes, a
\* quoted span is the text between the two quotes of a pair
RECURSIVE LinePieces(_, _, _, _)
LinePieces(s, i, inQuote, cur) ==
    IF i > Len(s)
    THEN IF cur = <<>> THEN <<>> ELSE <<[quoted |-> FALSE, text |-> cur]>>
    ELSE IF inQuote
         THEN IF s[i] = Quote
              THEN <<[quoted |-> TRUE, text |-> cur]>>
                       \o LinePieces(s, i + 1, FALSE, <<>>)
              ELSE LinePieces(s, i + 1, TRUE, Append(cur, s[i]))
         ELSE IF s[i] = Quote \/ s[i] \in Whitespace
              THEN (IF cur = <<>> THEN <<>> ELSE <<[quoted |-> FALSE, text |-> cur]>>)
                       \o LinePieces(s, i + 1, s[i] = Quote, <<>>)
              ELSE LinePieces(s, i + 1, FALSE, Append(cur, s[i]))

QuotedSpansAllowed(s) ==
    LET ps == LinePieces(s, 1, FALSE, <<>>) IN
    \A k \in 1..Len(ps) :
        ps[k].quoted => /\ ps[k].text # <<>>
                        /\ \A j \in 1..Len(ps[k].text) : ps[k].text[j] \in AllowedChars

\* C5: for a line with balanced quotes whose quoted spans are not empty and
\* hold only class characters, extract_args returns as many tokens as the line has unquoted
\* words and quoted spans, and the token standing for a quoted span is the
\* span's text without the quotes.
C5_TokenPerWordAndSpan ==
    (tokOut # Pending /\ BalancedQuotes(tokLine) /\ QuotedSpansAllowed(tokLine))
        => LET ps == LinePieces(tokLine, 1, FALSE, <<>>) IN
           /\ tokOut.exc = NoExc
           /\ Len(tokOut.args) = Len(ps)
           /\ \A k \in 1..Len(ps) : ps[k].quoted => tokOut.args[k] = ps[k].text


\* C12: a line whose quotes are unmatched or enclose text outside the
\* character class (no quoted span of the pattern) is left untouched: the
\* result is the plain whitespace split of the line, quotes still in the
\* tokens; the empty line yields no token.
C12_InvalidQuotesLeftUntouched ==
    (/\ tokOut # Pending
     /\ findall(tokLine, 1) = <<>>
     /\ (CountQuotes(tokLine) > 0 \/ tokLine = <<>>))
        => /\ tokOut.exc = NoExc
           /\ tokOut.args = split(tokLine, 1, <<>>)

\* C14: for a line without double quotes, tokenizing it, joining the tokens
\* with single spaces and tokenizing the result yields the token sequence
\* of the first tokenization.
C14_RejoinAndRetokenize ==
    (tokOut # Pending /\ CountQuotes(tokLine) = 0)
        => /\ tokOut.exc = NoExc
           /\ extract_args(JoinSpace(tokOut.args)) = tokOut

\* C15: in the re-substitution step every sentinel placed for a quoted span
\* is replaced by the content of that span, also when the span touches
\* other text or another span: for a line that does not itself hold the
\* sentinel's characters, no output token holds them and the content of
\* every quoted span is an output token.
C15_SentinelsReplaced ==
    (tokOut # Pending /\ "$" \notin Range(tokLine))
        => /\ tokOut.exc = NoExc
           /\ \A k \in 1..Len(tokOut.args) : "$" \notin Range(tokOut.args[k])
           /\ \A k \in 1..Len(findall(tokLine, 1)) :
                 findall(tokLine, 1)[k] \in Range(tokOut.args)

\* C18: extract_args is total: for every line, also one that holds the
\* sentinel text as a word of its own, it returns a token sequence and does
\* not raise.
C18_TokenizerIsTotal == tokOut # Pending => tokOut.exc = NoExc

====
